---- MODULE Spec2Model ----
(***************************************************************************)
(* Model of onebrc_rusty (src/main.rs): a read loop that cuts a file of    *)
(* "<city>;<temperature>\n" records into newline-aligned chunks, one       *)
(* async_tally task per chunk that folds its chunk into a map of           *)
(* CityMetrics and sends it on an unbounded channel, and a collection loop *)
(* in main that merges the received maps and finally computes the means.   *)
(*                                                                         *)
(* Bytes are their numeric values: 10 is '\n', 59 is ';', 48..57 are the   *)
(* digits, 97 and 98 are 'a' and 'b', 0 is the fill byte of a fresh chunk  *)
(* buffer, 255 is a byte that can occur in no valid UTF-8 text.            *)
(* Temperatures are written with digits only, so every f32 involved is a   *)
(* small integer and the arithmetic on them is exact; the mean is kept as  *)
(* a reduced fraction.                                                     *)
(***************************************************************************)
EXTENDS Integers, Sequences, FiniteSets, TLC

\* ------------------------------------------------------------------ bounds
\* The largest number of records of an input file.
MaxRecords == 2
\* The largest value of num_cpus::get().
MaxProcessors == 3
\* The spare bytes of every chunk buffer (10 KB in the program, scaled to the
\* four-byte records of the model).
extra_chunky == 1
\* The largest number of records of a chunk whose map the reducer is given.
MaxChunkRecords == 2
\* The most reads of one run that return fewer bytes than they could.
MaxShortReads == 1
\* The largest number of terminated records of a chunk given to the aggregator alone.
MaxTallyRecords == 3

\* ------------------------------------------------------------------ bytes
IsNewline(byte) == byte = 10

IsDigit(byte) == byte >= 48 /\ byte <= 57

Min(a, b) == IF a <= b THEN a ELSE b

SubSeqFrom(s, from) == SubSeq(s, from, Len(s))

\* vec![0; n]
Zeros(n) == [i \in 1..n |-> 0]

RECURSIVE Flatten(_)
Flatten(ss) == IF ss = <<>> THEN <<>> ELSE Head(ss) \o Flatten(Tail(ss))

\* ------------------------------------------------------------------ inputs
\* The terminated records an input file is made of: three well-formed ones,
\* one without a delimiter, one with a non-numeric value, and one whose first
\* byte is not valid UTF-8.
GoodRecords == { <<97, 59, 49, 10>>, <<97, 59, 51, 10>>, <<98, 59, 50, 10>> }

NoDelimiterRecord == <<97, 49, 10>>

NonNumericRecord == <<97, 59, 98, 10>>

BadUtf8Record == <<255, 59, 49, 10>>

RecordSet == GoodRecords \cup {NoDelimiterRecord, NonNumericRecord, BadUtf8Record}

\* What may follow the last terminated record: nothing, or a record that
\* lacks its newline.
TailSet == { <<>>, <<98, 59, 51>> }

RecordSeqs(S, n) == UNION { [1..k -> S] : k \in 0..n }

FileSet == { Flatten(rs) \o tl : rs \in RecordSeqs(RecordSet, MaxRecords), tl \in TailSet }

\* ------------------------------------------------------------------ parsing
\* std::str::from_utf8 on the bytes of the model: every byte below 128 is a
\* one-byte character, and 255 starts no character.
ValidUtf8(bytes) == \A i \in 1..Len(bytes) : bytes[i] < 128

\* line.split_once(';'): the position of the first delimiter, 0 when there is none.
DelimiterIndex(line) ==
    IF \E i \in 1..Len(line) : line[i] = 59
    THEN CHOOSE i \in 1..Len(line) : line[i] = 59 /\ \A j \in 1..(i - 1) : line[j] # 59
    ELSE 0

RECURSIVE DecimalValue(_)
DecimalValue(digits) ==
    IF digits = <<>> THEN 0
    ELSE 10 * DecimalValue(SubSeq(digits, 1, Len(digits) - 1)) + (digits[Len(digits)] - 48)

\* temp_str.parse::<f32>() on the bytes of the model: a non-empty run of
\* digits is a number, anything else is an Err.
ParsesAsF32(temp_str) == temp_str # <<>> /\ \A i \in 1..Len(temp_str) : IsDigit(temp_str[i])

\* ------------------------------------------------------------------ CityMetrics
RECURSIVE Gcd(_, _)
Gcd(a, b) == IF b = 0 THEN a ELSE Gcd(b, a % b)

\* An f32 quotient of two small non-negative integers, as a reduced fraction.
Quotient(n, d) == [num |-> n \div Gcd(n, d), den |-> d \div Gcd(n, d)]

\* The f32 literal 0.0 of the mean field.
ZeroMean == [num |-> 0, den |-> 1]

EmptyMap == [k \in {} |-> 0]

\* or_insert(CityMetrics{..}) of async_tally: the metrics of a city's first record.
FirstMetrics(temperature) ==
    [low |-> temperature, high |-> temperature, temperature_sum |-> 0,
     mean |-> ZeroMean, num_temps |-> 1]

\* ModifyMetrics with the two assignments of the range swapped.
ModifyMetricsSwapped(city_metrics, temperature) ==
    LET ranged ==
            IF temperature > city_metrics.high
            THEN [city_metrics EXCEPT !.low = temperature]
            ELSE IF temperature < city_metrics.low
                 THEN [city_metrics EXCEPT !.high = temperature]
                 ELSE city_metrics
    IN  [ranged EXCEPT !.num_temps = @ + 1, !.temperature_sum = @ + temperature]

\* ModifyMetrics with the low compared against the high.
ModifyMetricsLowAgainstHigh(city_metrics, temperature) ==
    LET ranged ==
            IF temperature > city_metrics.high
            THEN [city_metrics EXCEPT !.high = temperature]
            ELSE IF temperature < city_metrics.high
                 THEN [city_metrics EXCEPT !.low = temperature]
                 ELSE city_metrics
    IN  [ranged EXCEPT !.num_temps = @ + 1, !.temperature_sum = @ + temperature]

\* The and_modify closure of async_tally.
ModifyMetrics(city_metrics, temperature) ==
    LET ranged ==
            IF temperature > city_metrics.high
            THEN [city_metrics EXCEPT !.high = temperature]
            ELSE IF temperature < city_metrics.low
                 THEN [city_metrics EXCEPT !.low = temperature]
                 ELSE city_metrics
    IN  [ranged EXCEPT !.num_temps = @ + 1, !.temperature_sum = @ + temperature]

\* cities.entry(city_name).and_modify(..).or_insert(..)
TallyEntry(cities, city_name, temperature) ==
    IF city_name \in DOMAIN cities
    THEN [cities EXCEPT ![city_name] = ModifyMetrics(@, temperature)]
    ELSE [k \in DOMAIN cities \cup {city_name} |->
            IF k = city_name THEN FirstMetrics(temperature) ELSE cities[k]]

\* LineOutcome with a rejected line skipped like one that is not UTF-8.
LineOutcomeSkipping(line) ==
    IF ~ValidUtf8(line) THEN "skip"
    ELSE IF DelimiterIndex(line) = 0 THEN "skip"
    ELSE IF ~ParsesAsF32(SubSeqFrom(line, DelimiterIndex(line) + 1)) THEN "skip"
    ELSE "fold"

\* What one terminated record does to a task: "skip" when its bytes are not
\* UTF-8, "panic" when an expect() fails, "fold" otherwise.
LineOutcome(line) ==
    IF ~ValidUtf8(line) THEN "skip"
    ELSE IF DelimiterIndex(line) = 0 THEN "panic"
    ELSE IF ~ParsesAsF32(SubSeqFrom(line, DelimiterIndex(line) + 1)) THEN "panic"
    ELSE "fold"

CityName(line) == SubSeq(line, 1, DelimiterIndex(line) - 1)

Temperature(line) == DecimalValue(SubSeqFrom(line, DelimiterIndex(line) + 1))

\* The body of the `if byte == b'\n'` of async_tally on the map, for a line
\* whose outcome is not "panic".
TallyLine(cities, line) ==
    IF LineOutcome(line) = "fold"
    THEN TallyEntry(cities, CityName(line), Temperature(line))
    ELSE cities

\* MergeCity with the high of the received map taken without comparing.
MergeCityLastHigh(city_tally, city) ==
    LET added == [city_tally EXCEPT !.num_temps = @ + city.num_temps,
                                    !.temperature_sum = @ + city.temperature_sum]
        raised == [added EXCEPT !.high = city.high]
    IN  IF city.low < raised.low THEN [raised EXCEPT !.low = city.low] ELSE raised

\* MergeCity keeping the mean of the entry up to date at every merge.
MergeCityEagerMean(city_tally, city) ==
    LET added == [city_tally EXCEPT !.num_temps = @ + city.num_temps,
                                    !.temperature_sum = @ + city.temperature_sum]
        raised == IF city.high > added.high THEN [added EXCEPT !.high = city.high] ELSE added
        lowered == IF city.low < raised.low THEN [raised EXCEPT !.low = city.low] ELSE raised
    IN  [lowered EXCEPT !.mean = Quotient(lowered.temperature_sum, lowered.num_temps)]

\* MergeCity with the low of the received map taken without comparing.
MergeCityLastLow(city_tally, city) ==
    LET added == [city_tally EXCEPT !.num_temps = @ + city.num_temps,
                                    !.temperature_sum = @ + city.temperature_sum]
        raised == IF city.high > added.high THEN [added EXCEPT !.high = city.high] ELSE added
    IN  [raised EXCEPT !.low = city.low]

\* The merge closure of the collection loop, for a city present in both maps.
MergeCity(city_tally, city) ==
    LET added == [city_tally EXCEPT !.num_temps = @ + city.num_temps,
                                    !.temperature_sum = @ + city.temperature_sum]
        raised == IF city.high > added.high THEN [added EXCEPT !.high = city.high] ELSE added
    IN  IF city.low < raised.low THEN [raised EXCEPT !.low = city.low] ELSE raised

\* cities.into_iter().for_each(.. all_cities.entry(name).and_modify(..).or_insert(city.clone()))
Merge(all, cities) ==
    [k \in DOMAIN all \cup DOMAIN cities |->
        IF k \in DOMAIN all /\ k \in DOMAIN cities THEN MergeCity(all[k], cities[k])
        ELSE IF k \in DOMAIN cities THEN cities[k]
        ELSE all[k]]

\* metric.mean = metric.temperature_sum / metric.num_temps as f32, for every city.
Finalize(all) ==
    [k \in DOMAIN all |-> [all[k] EXCEPT !.mean = Quotient(all[k].temperature_sum, all[k].num_temps)]]

\* ------------------------------------------------------------------ state
VARIABLES
    file,                   \* the bytes of measurements.txt
    num_processors,         \* num_cpus::get()
    file_bytes_read,        \* bytes consumed so far, also the reader's position
    chunk_remainder,        \* the carry buffer
    bytes_read,             \* the result of the last reader.read: "none", "ok", "eof", "err"
    tasks,                  \* the spawned async_tally tasks, in spawn order
    channel,                \* the unbounded channel, oldest message first
    num_tasks,              \* outstanding results
    total_tasks,            \* num_tasks as the collection loop starts
    count_tasks_completed,  \* messages received
    all_cities,             \* the accumulating map of main
    short_reads,            \* how many reads came back short so far
    mainpc,                 \* where main is: "read", "collect", "finalize", "done"
    process                 \* "running", or "aborted" once a panic ended the process

vars == <<file, num_processors, file_bytes_read, chunk_remainder, bytes_read, tasks,
          channel, num_tasks, total_tasks, count_tasks_completed, all_cities, mainpc,
          process, short_reads>>

file_size == Len(file)

num_chunks == num_processors * num_processors

chunk_size == (file_size \div num_chunks) + 1

\* ------------------------------------------------------------------ read loop
\* chunk.iter().rev().position(|&x| x == b'\n'): how many bytes follow the last
\* newline, -1 for None.
RevPosition(chunk) ==
    IF \E i \in 1..Len(chunk) : IsNewline(chunk[i])
    THEN Len(chunk) - (CHOOSE i \in 1..Len(chunk) :
                            IsNewline(chunk[i]) /\ \A j \in (i + 1)..Len(chunk) : ~IsNewline(chunk[j]))
    ELSE -1

\* The chunk buffer after the carry copy and a read of num_bytes bytes.
FilledChunk(num_bytes) ==
    chunk_remainder
        \o SubSeq(file, file_bytes_read + 1, file_bytes_read + num_bytes)
        \o Zeros(chunk_size + extra_chunky - Len(chunk_remainder) - num_bytes)

\* Whether the realignment branch is taken after a read of num_bytes bytes.
MoreRemains(num_bytes) == file_bytes_read + num_bytes < file_size

\* Whether the buffer is cut at its last newline.
Realigns(num_bytes) == MoreRemains(num_bytes) /\ RevPosition(FilledChunk(num_bytes)) # -1

OriginalIndex(chunk) == Len(chunk) - RevPosition(chunk)

\* The chunk handed to task::spawn.
DispatchedChunk(num_bytes) ==
    IF Realigns(num_bytes)
    THEN SubSeq(FilledChunk(num_bytes), 1, OriginalIndex(FilledChunk(num_bytes)))
    ELSE FilledChunk(num_bytes)

\* chunk_remainder as the iteration ends.
NewRemainder(num_bytes) ==
    IF Realigns(num_bytes)
    THEN SubSeqFrom(FilledChunk(num_bytes), OriginalIndex(FilledChunk(num_bytes)) + 1)
    ELSE <<>>

\* A task as task::spawn creates it. more is the value of
\* file_bytes_read < file_size when its chunk was dispatched.
NewTask(data, more) ==
    [data |-> data, start |-> 0, scanned |-> 0, cities |-> EmptyMap, state |-> "scan",
     more |-> more]

\* The bytes a read that fills the buffer, or reaches the end of the file, returns.
FullRead == Min(chunk_size + extra_chunky - Len(chunk_remainder), file_size - file_bytes_read)

\* The Ok(num_bytes) arm with num_bytes > 0: realign, spawn, count.
ReadOk(num_bytes) ==
    /\ mainpc = "read" /\ process = "running"
    /\ num_bytes >= 1 /\ num_bytes <= FullRead
    /\ bytes_read' = "ok"
    /\ file_bytes_read' = file_bytes_read + num_bytes
    /\ chunk_remainder' = NewRemainder(num_bytes)
    /\ tasks' = Append(tasks, NewTask(DispatchedChunk(num_bytes), MoreRemains(num_bytes)))
    /\ num_tasks' = num_tasks + 1
    /\ UNCHANGED <<file, num_processors, channel, total_tasks, count_tasks_completed,
                   all_cities, mainpc, process>>

\* One iteration of the read loop whose read returns all it can.
ReadFull == ReadOk(FullRead) /\ UNCHANGED short_reads

\* One iteration of the read loop whose read returns fewer bytes than asked
\* for although more are there, as Read::read may.
ReadShort ==
    /\ short_reads < MaxShortReads
    /\ \E num_bytes \in 1..(FullRead - 1) : ReadOk(num_bytes)
    /\ short_reads' = short_reads + 1

\* Leaving the read loop: the carry buffer was copied and cleared before the read.
BreakReadLoop(result) ==
    /\ mainpc = "read" /\ process = "running"
    /\ bytes_read' = result
    /\ chunk_remainder' = <<>>
    /\ mainpc' = "collect"
    /\ total_tasks' = num_tasks
    /\ UNCHANGED <<short_reads, file, num_processors, file_bytes_read, tasks, channel, num_tasks,
                   count_tasks_completed, all_cities, process>>

\* The Ok(0) arm: the reader is at the end of the file.
ReadEof == file_bytes_read = file_size /\ BreakReadLoop("eof")

\* The two Err arms: the read failed.
ReadErr == BreakReadLoop("err")

\* ------------------------------------------------------------------ async_tally
\* The index of the first newline of data at or after from, -1 when there is none.
NextNewline(data, from) ==
    IF \E i \in from..(Len(data) - 1) : IsNewline(data[i + 1])
    THEN CHOOSE i \in from..(Len(data) - 1) :
            IsNewline(data[i + 1]) /\ \A j \in from..(i - 1) : ~IsNewline(data[j + 1])
    ELSE -1

\* &data[start..newline_index]
LineAt(task) == SubSeq(task.data, task.start + 1, NextNewline(task.data, task.scanned))

AtNewline(task) == task.state = "scan" /\ NextNewline(task.data, task.scanned) # -1

\* TallyRecord with start advanced only past a line that was decoded.
TallyRecordStartInside(t) ==
    /\ process = "running"
    /\ AtNewline(tasks[t])
    /\ LineOutcome(LineAt(tasks[t])) # "panic"
    /\ tasks' = [tasks EXCEPT ![t] =
                    [@ EXCEPT !.cities = TallyLine(tasks[t].cities, LineAt(tasks[t])),
                              !.start = IF LineOutcome(LineAt(tasks[t])) = "skip"
                                        THEN tasks[t].start
                                        ELSE NextNewline(tasks[t].data, tasks[t].scanned) + 1,
                              !.scanned = NextNewline(tasks[t].data, tasks[t].scanned) + 1]]
    /\ UNCHANGED <<short_reads, file, num_processors, file_bytes_read, chunk_remainder, bytes_read,
                   channel, num_tasks, total_tasks, count_tasks_completed, all_cities,
                   mainpc, process>>

\* The scan up to and including the next newline, for a line no expect() rejects.
TallyRecord(t) ==
    /\ process = "running"
    /\ AtNewline(tasks[t])
    /\ LineOutcome(LineAt(tasks[t])) # "panic"
    /\ tasks' = [tasks EXCEPT ![t] =
                    [@ EXCEPT !.cities = TallyLine(tasks[t].cities, LineAt(tasks[t])),
                              !.start = NextNewline(tasks[t].data, tasks[t].scanned) + 1,
                              !.scanned = NextNewline(tasks[t].data, tasks[t].scanned) + 1]]
    /\ UNCHANGED <<short_reads, file, num_processors, file_bytes_read, chunk_remainder, bytes_read,
                   channel, num_tasks, total_tasks, count_tasks_completed, all_cities,
                   mainpc, process>>

\* What a panic in a spawned task does to the process depends on the runtime:
\* it aborts the process, or it unwinds the task alone, which is then lost.
PanicPolicies == {"abort", "unwind"}

\* The scan up to the next newline, for a line an expect() rejects.
TallyPanic(t) ==
    /\ process = "running"
    /\ AtNewline(tasks[t])
    /\ LineOutcome(LineAt(tasks[t])) = "panic"
    /\ tasks' = [tasks EXCEPT ![t] = [@ EXCEPT !.state = "panicked"]]
    /\ \E policy \in PanicPolicies :
            process' = IF policy = "abort" THEN "aborted" ELSE process
    /\ UNCHANGED <<short_reads, file, num_processors, file_bytes_read, chunk_remainder, bytes_read,
                   channel, num_tasks, total_tasks, count_tasks_completed, all_cities,
                   mainpc>>

\* TallySend with the bytes after the last newline folded as one more record.
TallySendFoldingTail(t) ==
    /\ process = "running"
    /\ tasks[t].state = "scan"
    /\ NextNewline(tasks[t].data, tasks[t].scanned) = -1
    /\ tasks' = [tasks EXCEPT ![t] =
                    [@ EXCEPT !.state = "sent", !.scanned = Len(tasks[t].data),
                              !.cities = TallyLine(tasks[t].cities,
                                                   SubSeqFrom(tasks[t].data, tasks[t].start + 1))]]
    /\ channel' = Append(channel, TallyLine(tasks[t].cities,
                                            SubSeqFrom(tasks[t].data, tasks[t].start + 1)))
    /\ UNCHANGED <<short_reads, file, num_processors, file_bytes_read, chunk_remainder, bytes_read,
                   num_tasks, total_tasks, count_tasks_completed, all_cities, mainpc,
                   process>>

\* sender.send(cities), once the scan has passed the last byte.
TallySend(t) ==
    /\ process = "running"
    /\ tasks[t].state = "scan"
    /\ NextNewline(tasks[t].data, tasks[t].scanned) = -1
    /\ tasks' = [tasks EXCEPT ![t] = [@ EXCEPT !.state = "sent", !.scanned = Len(tasks[t].data)]]
    /\ channel' = Append(channel, tasks[t].cities)
    /\ UNCHANGED <<short_reads, file, num_processors, file_bytes_read, chunk_remainder, bytes_read,
                   num_tasks, total_tasks, count_tasks_completed, all_cities, mainpc,
                   process>>

Tally == \E t \in 1..Len(tasks) : TallyRecord(t)

Panic == \E t \in 1..Len(tasks) : TallyPanic(t)

Send == \E t \in 1..Len(tasks) : TallySend(t)

\* ------------------------------------------------------------------ collection
\* Recv leaving the loop one message early.
RecvOffByOne ==
    /\ mainpc = "collect" /\ process = "running"
    /\ channel # <<>>
    /\ channel' = Tail(channel)
    /\ count_tasks_completed' = count_tasks_completed + 1
    /\ all_cities' = Merge(all_cities, Head(channel))
    /\ num_tasks' = num_tasks - 1
    /\ mainpc' = IF num_tasks - 1 <= 1 THEN "finalize" ELSE "collect"
    /\ UNCHANGED <<short_reads, file, num_processors, file_bytes_read, chunk_remainder, bytes_read,
                   tasks, total_tasks, process>>

\* One turn of the collection loop: receive, merge, count down, maybe break.
Recv ==
    /\ mainpc = "collect" /\ process = "running"
    /\ channel # <<>>
    /\ channel' = Tail(channel)
    /\ count_tasks_completed' = count_tasks_completed + 1
    /\ all_cities' = Merge(all_cities, Head(channel))
    /\ num_tasks' = num_tasks - 1
    /\ mainpc' = IF num_tasks - 1 = 0 THEN "finalize" ELSE "collect"
    /\ UNCHANGED <<short_reads, file, num_processors, file_bytes_read, chunk_remainder, bytes_read,
                   tasks, total_tasks, process>>

\* The iter_mut().for_each that sets every mean.
FinalizeMeans ==
    /\ mainpc = "finalize" /\ process = "running"
    /\ all_cities' = Finalize(all_cities)
    /\ mainpc' = "done"
    /\ UNCHANGED <<short_reads, file, num_processors, file_bytes_read, chunk_remainder, bytes_read,
                   tasks, channel, num_tasks, total_tasks, count_tasks_completed, process>>

\* ------------------------------------------------------------------ specification
Init ==
    /\ file \in FileSet
    /\ num_processors \in 1..MaxProcessors
    /\ file_bytes_read = 0
    /\ chunk_remainder = <<>>
    /\ bytes_read = "none"
    /\ tasks = <<>>
    /\ channel = <<>>
    /\ num_tasks = 0
    /\ total_tasks = 0
    /\ count_tasks_completed = 0
    /\ all_cities = EmptyMap
    /\ mainpc = "read"
    /\ process = "running"
    /\ short_reads = 0

Next ==
    \/ ReadFull
    \/ ReadShort
    \/ ReadEof
    \/ ReadErr
    \/ Tally
    \/ Panic
    \/ Send
    \/ Recv
    \/ FinalizeMeans

Spec == Init /\ [][Next]_vars

\* The reducer alone: three tasks hold chunks of well-formed records, the read
\* loop has ended, and main collects what they send in whatever order they send.
MergeChunkSet == { Flatten(rs) : rs \in RecordSeqs(GoodRecords, MaxChunkRecords) }

InitMerge ==
    /\ \E a \in MergeChunkSet, b \in MergeChunkSet, c \in MergeChunkSet :
            /\ file = a \o b \o c
            /\ tasks = <<NewTask(a, TRUE), NewTask(b, TRUE), NewTask(c, FALSE)>>
    /\ num_processors = 1
    /\ file_bytes_read = Len(file)
    /\ chunk_remainder = <<>>
    /\ bytes_read = "eof"
    /\ channel = <<>>
    /\ num_tasks = Len(tasks)
    /\ total_tasks = Len(tasks)
    /\ count_tasks_completed = 0
    /\ all_cities = EmptyMap
    /\ mainpc = "collect"
    /\ process = "running"
    /\ short_reads = 0

NextMerge ==
    \/ Tally
    \/ Send
    \/ Recv
    \/ FinalizeMeans

SpecMerge == InitMerge /\ [][NextMerge]_vars

\* The aggregator alone: one task holds one chunk (records of every kind, then
\* maybe an unterminated record, or one followed by the fill bytes of the
\* buffer), the read loop has ended, and main collects what the task sends.
TallyTailSet == TailSet \cup { <<98, 59, 51, 0>> }

\* The records of RecordSet and one more of key a, its value between the other two.
TallyRecordSet == RecordSet \cup { <<97, 59, 50, 10>> }

TallyChunkSet ==
    { Flatten(rs) \o tl : rs \in RecordSeqs(TallyRecordSet, MaxTallyRecords), tl \in TallyTailSet }

InitTally ==
    /\ file \in TallyChunkSet
    /\ tasks = <<NewTask(file, FALSE)>>
    /\ num_processors = 1
    /\ file_bytes_read = Len(file)
    /\ chunk_remainder = <<>>
    /\ bytes_read = "eof"
    /\ channel = <<>>
    /\ num_tasks = Len(tasks)
    /\ total_tasks = Len(tasks)
    /\ count_tasks_completed = 0
    /\ all_cities = EmptyMap
    /\ mainpc = "collect"
    /\ process = "running"
    /\ short_reads = 0

NextTally ==
    \/ Tally
    \/ Panic
    \/ Send
    \/ Recv
    \/ FinalizeMeans

SpecTally == InitTally /\ [][NextTally]_vars

\* ------------------------------------------------------------------ reference
\* async_tally's scan of a whole chunk that holds no line an expect() rejects.
RECURSIVE TallyFrom(_, _, _)
TallyFrom(cities, data, from) ==
    IF NextNewline(data, from) = -1 THEN cities
    ELSE TallyFrom(TallyLine(cities, SubSeq(data, from + 1, NextNewline(data, from))),
                   data, NextNewline(data, from) + 1)

TallyAll(data) == TallyFrom(EmptyMap, data, 0)

\* The terminated lines of data, without their newlines, in order.
RECURSIVE LinesFrom(_, _)
LinesFrom(data, from) ==
    IF NextNewline(data, from) = -1 THEN <<>>
    ELSE <<SubSeq(data, from + 1, NextNewline(data, from))>>
            \o LinesFrom(data, NextNewline(data, from) + 1)

Lines(data) == LinesFrom(data, 0)

\* A line of the form <key>;<digits>.
WellFormedLine(line) ==
    /\ ValidUtf8(line)
    /\ DelimiterIndex(line) > 1
    /\ ParsesAsF32(SubSeqFrom(line, DelimiterIndex(line) + 1))

\* A line with no delimiter, or with a value that is no number.
MalformedLine(line) ==
    /\ ValidUtf8(line)
    /\ \/ \A i \in 1..Len(line) : line[i] # 59
       \/ ~ParsesAsF32(SubSeqFrom(line, DelimiterIndex(line) + 1))

\* The input is a run of well-formed records, each with its newline.
WellFormedFile ==
    /\ file = <<>> \/ IsNewline(file[Len(file)])
    /\ \A i \in 1..Len(Lines(file)) : WellFormedLine(Lines(file)[i])

\* The temperatures of the records of key in data, in order.
TempsOf(data, key) ==
    LET ls == Lines(data)
        F[i \in 0..Len(ls)] ==
            IF i = 0 THEN <<>>
            ELSE IF CityName(ls[i]) = key THEN Append(F[i - 1], Temperature(ls[i]))
            ELSE F[i - 1]
    IN  F[Len(ls)]

KeysOf(data) == { CityName(Lines(data)[i]) : i \in 1..Len(Lines(data)) }

RECURSIVE SumOf(_)
SumOf(temps) == IF temps = <<>> THEN 0 ELSE Head(temps) + SumOf(Tail(temps))

MinOf(temps) == CHOOSE v \in {temps[i] : i \in 1..Len(temps)} : \A i \in 1..Len(temps) : v <= temps[i]

MaxOf(temps) == CHOOSE v \in {temps[i] : i \in 1..Len(temps)} : \A i \in 1..Len(temps) : v >= temps[i]

\* low, high, count and sum of every city of a map.
Core(cities) ==
    [k \in DOMAIN cities |->
        [low |-> cities[k].low, high |-> cities[k].high,
         num_temps |-> cities[k].num_temps, temperature_sum |-> cities[k].temperature_sum]]

\* The chunks handed to task::spawn so far, in the order of the read loop.
Dispatched == [t \in 1..Len(tasks) |-> tasks[t].data]

\* The read loop ended at the end of the file, every read having returned all it could.
ReadToTheEnd == mainpc # "read" /\ bytes_read = "eof" /\ short_reads = 0

\* ------------------------------------------------------------------ claims
\* C1: chunking invariance. Once every per-chunk map of a well-formed input is
\* merged, every key has the low, high, count and sum that async_tally gives
\* on the whole input as one chunk.
ChunkingInvariance ==
    (ReadToTheEnd /\ WellFormedFile /\ mainpc \in {"finalize", "done"})
        => Core(all_cities) = Core(TallyAll(file))

\* C2: lossless realignment. The chunks handed to the tasks, concatenated in
\* the order of the read loop, are the input, byte for byte.
LosslessRealignment == ReadToTheEnd => Flatten(Dispatched) = file

\* C3: end-to-end result. For every key of a well-formed input the final map
\* holds the minimum, the maximum, the number of its values and their
\* arithmetic mean.
EndToEndResult ==
    (ReadToTheEnd /\ WellFormedFile /\ mainpc = "done")
        => /\ DOMAIN all_cities = KeysOf(file)
           /\ \A k \in KeysOf(file) :
                /\ all_cities[k].low = MinOf(TempsOf(file, k))
                /\ all_cities[k].high = MaxOf(TempsOf(file, k))
                /\ all_cities[k].num_temps = Len(TempsOf(file, k))
                /\ all_cities[k].mean = Quotient(SumOf(TempsOf(file, k)), Len(TempsOf(file, k)))

\* C4: empty input. With zero bytes to read and so zero results outstanding,
\* main does not sit in the collection loop waiting for a message.
EmptyInputDoesNotWait ==
    ~(file = <<>> /\ mainpc = "collect" /\ total_tasks = 0 /\ channel = <<>>)

\* The maps of a run of tasks folded into an accumulator in spawn order.
RECURSIVE FoldInOrder(_, _)
FoldInOrder(all, ts) ==
    IF ts = <<>> THEN all ELSE FoldInOrder(Merge(all, Head(ts).cities), Tail(ts))

AllSent == \A t \in 1..Len(tasks) : tasks[t].state = "sent"

\* The tasks whose map holds key.
Holders(key) == { t \in 1..Len(tasks) : key \in DOMAIN tasks[t].cities }

\* C5: the merge is commutative and associative on low, high, count and sum.
\* Whatever the order in which the three maps arrive, the accumulator ends as
\* their fold in spawn order; regrouping or swapping the maps changes nothing;
\* the first map merged into the empty accumulator is taken as it is; and a
\* key only one map holds is carried through unchanged.
MergeOrderIndependent ==
    /\ mainpc = "finalize" => Core(all_cities) = Core(FoldInOrder(EmptyMap, tasks))
    /\ AllSent =>
        /\ Core(Merge(Merge(tasks[1].cities, tasks[2].cities), tasks[3].cities))
             = Core(Merge(tasks[1].cities, Merge(tasks[2].cities, tasks[3].cities)))
        /\ Core(Merge(tasks[1].cities, tasks[2].cities))
             = Core(Merge(tasks[2].cities, tasks[1].cities))
    /\ count_tasks_completed = 1 =>
        \E t \in 1..Len(tasks) : tasks[t].state = "sent" /\ all_cities = tasks[t].cities
    /\ mainpc = "finalize" =>
        \A k \in DOMAIN all_cities :
            \A t \in Holders(k) : Holders(k) = {t} => all_cities[k] = tasks[t].cities[k]

\* Three maps that disagree on a shared key were merged, the spawn order not
\* being the order of arrival, and another key came from one map alone.
MergeOrderIndependentWitness ==
    /\ mainpc = "finalize"
    /\ \E k \in DOMAIN all_cities :
            /\ Holders(k) = 1..Len(tasks)
            /\ all_cities[k].low < all_cities[k].high
            /\ tasks[3].cities[k].high < all_cities[k].high
    /\ \E k \in DOMAIN all_cities : Cardinality(Holders(k)) = 1

\* C6: a malformed record causes a pipeline-wide failure. A task whose chunk
\* holds a terminated record without a delimiter or with a non-numeric value
\* never sends a map, and main never leaves the collection loop with a final
\* map, whatever the other tasks do.
HasMalformedLine(data) == \E i \in 1..Len(Lines(data)) : MalformedLine(Lines(data)[i])

ReadFailureAborts ==
    bytes_read = "err" => (count_tasks_completed = 0 /\ mainpc \notin {"finalize", "done"})

\* C8: fatal alignment error. A buffer filled while more data remains and
\* holding no newline is never dispatched to a task.
AlignmentErrorAborts ==
    \A t \in 1..Len(tasks) :
        tasks[t].more => \E i \in 1..Len(tasks[t].data) : IsNewline(tasks[t].data[i])

\* C9: record alignment. Every dispatched chunk but the last ends with a
\* newline, so every chunk after the first starts right after a record boundary.
RecordAlignment ==
    \A t \in 1..Len(tasks) :
        /\ tasks[t].more => (tasks[t].data # <<>> /\ IsNewline(tasks[t].data[Len(tasks[t].data)]))
        /\ t > 1 => (tasks[t - 1].data # <<>> /\ IsNewline(tasks[t - 1].data[Len(tasks[t - 1].data)]))

\* C10: aggregate invariant. Every key of every map (of a task, in the
\* channel, of main) has a count of at least 1 and low <= high.
SoundMap(cities) ==
    \A k \in DOMAIN cities : cities[k].num_temps >= 1 /\ cities[k].low <= cities[k].high

AggregateInvariant ==
    /\ \A t \in 1..Len(tasks) : SoundMap(tasks[t].cities)
    /\ \A i \in 1..Len(channel) : SoundMap(channel[i])
    /\ SoundMap(all_cities)

\* A task folded two different temperatures of one city, and main merged
\* the maps of two tasks into an entry with low < high.
AggregateInvariantWitness ==
    /\ \E t \in 1..Len(tasks) : \E k \in DOMAIN tasks[t].cities :
            tasks[t].cities[k].low < tasks[t].cities[k].high
    /\ count_tasks_completed >= 2
    /\ \E k \in DOMAIN all_cities :
            all_cities[k].low < all_cities[k].high /\ all_cities[k].num_temps >= 2

\* The tasks that have sent their map.
SentTasks == { t \in 1..Len(tasks) : tasks[t].state = "sent" }

\* C11: collection protocol. One task is spawned per dispatched chunk and
\* counted; a task sends at most one map and every map sent is in the channel
\* or merged; nothing is received before the read loop has ended; every
\* receive counts the outstanding results down by one; the loop stops on the
\* receive that brings the count to zero and not before, and when it has
\* stopped the maps merged are as many as the chunks dispatched and the
\* channel is empty.
CollectionProtocol ==
    /\ mainpc = "read" => (num_tasks = Len(tasks) /\ count_tasks_completed = 0)
    /\ Cardinality(SentTasks) = Len(channel) + count_tasks_completed
    /\ mainpc # "read" =>
        /\ total_tasks = Len(tasks)
        /\ num_tasks = total_tasks - count_tasks_completed
    /\ (mainpc = "collect" /\ count_tasks_completed >= 1) => num_tasks >= 1
    /\ mainpc \in {"finalize", "done"} =>
        /\ num_tasks = 0
        /\ count_tasks_completed = Len(tasks)
        /\ SentTasks = 1..Len(tasks)
        /\ channel = <<>>
        /\ Core(all_cities) = Core(FoldInOrder(EmptyMap, tasks))

\* The collection loop has stopped after merging the maps of three chunks.
CollectionProtocolWitness ==
    /\ mainpc = "finalize"
    /\ count_tasks_completed >= 3
    /\ all_cities # EmptyMap

\* The chunks the read loop dispatches when every read returns all it can and
\* none fails, as a function of the file and the buffer size: pos bytes are
\* consumed and carry is the carry buffer.
RECURSIVE ChunksFrom(_, _, _, _)
ChunksFrom(bytes, buffer_size, pos, carry) ==
    IF pos = Len(bytes) THEN <<>>
    ELSE LET num_bytes == Min(buffer_size - Len(carry), Len(bytes) - pos)
             chunk == carry \o SubSeq(bytes, pos + 1, pos + num_bytes)
                            \o Zeros(buffer_size - Len(carry) - num_bytes)
             cut == pos + num_bytes < Len(bytes) /\ RevPosition(chunk) # -1
         IN  <<IF cut THEN SubSeq(chunk, 1, OriginalIndex(chunk)) ELSE chunk>>
                \o ChunksFrom(bytes, buffer_size, pos + num_bytes,
                              IF cut THEN SubSeqFrom(chunk, OriginalIndex(chunk) + 1) ELSE <<>>)

\* The maps of a run of chunks folded into an accumulator in order.
RECURSIVE FoldChunks(_, _)
FoldChunks(all, chunks) ==
    IF chunks = <<>> THEN all ELSE FoldChunks(Merge(all, TallyAll(Head(chunks))), Tail(chunks))

\* The final map as a function of the input and the number of processors alone.
ExpectedFinal ==
    FoldChunks(EmptyMap, ChunksFrom(file, chunk_size + extra_chunky, 0, <<>>))

\* C12: order independence. With the input and the chunk size fixed (every
\* read returning all it can), whatever the interleaving of the tasks and the
\* order in which their maps arrive, the map main ends with has the low, high,
\* count and sum that the input alone determines.
OrderIndependence ==
    (ReadToTheEnd /\ mainpc \in {"finalize", "done"})
        => Core(all_cities) = Core(ExpectedFinal)

\* Main has merged the maps of two or more chunks that hold the same key with
\* different temperatures, the last chunk not holding the highest.
OrderIndependenceWitness ==
    /\ ReadToTheEnd /\ WellFormedFile /\ mainpc = "finalize"
    /\ Len(tasks) >= 2
    /\ \E k \in DOMAIN all_cities :
            /\ all_cities[k].low < all_cities[k].high
            /\ Cardinality(Holders(k)) >= 2
            /\ Len(tasks) \in Holders(k)
            /\ all_cities[k].high > tasks[Len(tasks)].cities[k].high

\* No task can send any more: each has sent or has panicked.
NoSenderLeft == \A t \in 1..Len(tasks) : tasks[t].state \in {"sent", "panicked"}

\* C13: run to completion. On a non-empty input main is never left in the
\* collection loop, the process alive, waiting for a map that no task will
\* ever send.
NeverBlockedInCollection ==
    ~(/\ file # <<>>
      /\ process = "running"
      /\ mainpc = "collect"
      /\ channel = <<>>
      /\ NoSenderLeft)

\* A line async_tally folds: text with a delimiter and a number after it.
FoldedLine(line) ==
    /\ ValidUtf8(line)
    /\ \E i \in 1..Len(line) : line[i] = 59
    /\ ParsesAsF32(SubSeqFrom(line, DelimiterIndex(line) + 1))

\* The temperatures of the folded lines of key among the terminated lines of data, in order.
FoldedTemps(data, key) ==
    LET ls == Lines(data)
        F[i \in 0..Len(ls)] ==
            IF i = 0 THEN <<>>
            ELSE IF FoldedLine(ls[i]) /\ CityName(ls[i]) = key
                 THEN Append(F[i - 1], Temperature(ls[i]))
                 ELSE F[i - 1]
    IN  F[Len(ls)]

\* The bytes of its chunk a task has scanned record by record so far.
Scanned(task) == SubSeq(task.data, 1, task.start)

\* C14: per-key fold of the chunk aggregator. At every point of the scan, and
\* so once the chunk is processed, every key of the task's map has for sum
\* the total of its values among the records scanned and for count their
\* number, the first record of a key counting with its value like the others.
ChunkFoldSums ==
    \A t \in 1..Len(tasks) : \A k \in DOMAIN tasks[t].cities :
        /\ tasks[t].cities[k].num_temps = Len(FoldedTemps(Scanned(tasks[t]), k))
        /\ tasks[t].cities[k].temperature_sum = SumOf(FoldedTemps(Scanned(tasks[t]), k))

\* C15: min/max with the high checked first. A record changes at most one of
\* low and high of a key already in the map, and still at every point of the
\* scan every key has for low the least and for high the greatest of its
\* values among the records scanned.
HighFirstMinMax ==
    /\ [](\A t \in 1..Len(tasks) : \A k \in DOMAIN tasks[t].cities :
            /\ tasks[t].cities[k].low = MinOf(FoldedTemps(Scanned(tasks[t]), k))
            /\ tasks[t].cities[k].high = MaxOf(FoldedTemps(Scanned(tasks[t]), k)))
    /\ [][\A t \in 1..Len(tasks) : \A k \in DOMAIN tasks[t].cities :
            ~(/\ tasks'[t].cities[k].low # tasks[t].cities[k].low
              /\ tasks'[t].cities[k].high # tasks[t].cities[k].high)]_vars

\* A task has folded three records of one key: the second was a new high, the
\* third a new low.
HighFirstMinMaxWitness ==
    \E t \in 1..Len(tasks) : \E k \in DOMAIN tasks[t].cities :
        /\ tasks[t].state = "sent"
        /\ tasks[t].cities[k].num_temps = 3
        /\ FoldedTemps(tasks[t].data, k)[2] = tasks[t].cities[k].high
        /\ FoldedTemps(tasks[t].data, k)[3] = tasks[t].cities[k].low
        /\ FoldedTemps(tasks[t].data, k)[1] > tasks[t].cities[k].low
        /\ FoldedTemps(tasks[t].data, k)[1] < tasks[t].cities[k].high

\* The terminated lines of data that are valid text, each with its newline.
RECURSIVE DecodableFrom(_, _)
DecodableFrom(data, from) ==
    IF NextNewline(data, from) = -1 THEN <<>>
    ELSE (IF ValidUtf8(SubSeq(data, from + 1, NextNewline(data, from)))
          THEN SubSeq(data, from + 1, NextNewline(data, from) + 1)
          ELSE <<>>)
            \o DecodableFrom(data, NextNewline(data, from) + 1)

WithoutUndecodable(data) == DecodableFrom(data, 0)

\* C16: tolerated decode anomaly. A task never fails on a record that is not
\* valid text, and at every point of its scan its map is the one it would
\* have had the undecodable records not been in the chunk: each is dropped
\* alone, the records before and after it are folded.
DecodeAnomalyTolerated ==
    \A t \in 1..Len(tasks) :
        /\ tasks[t].state = "panicked" => ValidUtf8(LineAt(tasks[t]))
        /\ tasks[t].cities
             = TallyAll(WithoutUndecodable(SubSeq(tasks[t].data, 1, tasks[t].scanned)))

\* A task has sent, and main received, the map of a chunk whose second record
\* is not valid text and whose first and third are folded.
DecodeAnomalyToleratedWitness ==
    /\ count_tasks_completed = 1
    /\ tasks[1].state = "sent"
    /\ Len(Lines(tasks[1].data)) = 3
    /\ FoldedLine(Lines(tasks[1].data)[1])
    /\ ~ValidUtf8(Lines(tasks[1].data)[2])
    /\ FoldedLine(Lines(tasks[1].data)[3])
    /\ all_cities = TallyAll(Lines(tasks[1].data)[1] \o <<10>> \o Lines(tasks[1].data)[3] \o <<10>>)

\* Every mean of a map still has the 0.0 it was created with.
MeansUnset(cities) == \A k \in DOMAIN cities : cities[k].mean = ZeroMean

\* The means as they stand in a state, for C17.
MeansInOrder ==
    /\ \A t \in 1..Len(tasks) : MeansUnset(tasks[t].cities)
    /\ \A i \in 1..Len(channel) : MeansUnset(channel[i])
    /\ mainpc # "done" => MeansUnset(all_cities)
    /\ mainpc = "done" =>
        /\ num_tasks = 0 /\ channel = <<>> /\ count_tasks_completed = Len(tasks)
        /\ \A k \in DOMAIN all_cities :
                all_cities[k].mean
                    = Quotient(all_cities[k].temperature_sum, all_cities[k].num_temps)

\* C17: mean finalization ordering. No task and no merge touches a mean: in
\* every task's map, in every map in the channel and in main's map the means
\* keep their initial value until main finalizes, which happens only once
\* the outstanding count is zero and sets every mean to sum / count; a mean
\* changes in that one step and in no other, so it is set once.
MeanSetOnceAtTheEnd ==
    /\ []MeansInOrder
    /\ [][(\E k \in DOMAIN all_cities \cap DOMAIN all_cities' :
                all_cities'[k].mean # all_cities[k].mean)
            => (mainpc = "finalize" /\ mainpc' = "done" /\ num_tasks = 0)]_vars

\* Main has finalized a map merged from two chunks, with a mean that is not
\* the initial 0.0.
MeanSetOnceAtTheEndWitness ==
    /\ mainpc = "done"
    /\ count_tasks_completed >= 2
    /\ \E k \in DOMAIN all_cities :
            /\ all_cities[k].mean # ZeroMean
            /\ Cardinality(Holders(k)) >= 2

\* C18: no carried data is lost at the end of the read loop. In the step
\* that leaves the read loop, whichever arm breaks, the carry buffer is empty
\* afterwards and held nothing when the iteration began: the bytes it held
\* would have been copied into a chunk buffer that is dropped, not dispatched.
\* Stated for runs whose reads returned all they could, where the carry holds
\* bytes of the file only.
NoCarriedDataLost ==
    [][(mainpc = "read" /\ mainpc' # "read" /\ short_reads = 0)
            => (chunk_remainder' = <<>> /\ chunk_remainder = <<>>)]_vars

\* The counts of a map summed over its keys.
TotalCount(cities) ==
    LET S[ks \in SUBSET DOMAIN cities] ==
            IF ks = {} THEN 0
            ELSE LET k == CHOOSE k \in ks : TRUE
                 IN  cities[k].num_temps + S[ks \ {k}]
    IN  S[DOMAIN cities]

\* The number of newline bytes of data.
Separators(data) == Cardinality({ i \in 1..Len(data) : IsNewline(data[i]) })

\* data up to and including its last newline.
Terminated(data) ==
    IF RevPosition(data) = -1 THEN <<>> ELSE SubSeq(data, 1, OriginalIndex(data))

\* C19: only terminated records are folded. The counts of a task's map summed
\* over its keys never exceed the number of newlines the task has scanned, nor
\* do those of a map in the channel or of main's map exceed the newlines of
\* the chunk; and the map a task sends is the map of its chunk cut after the
\* last newline: the bytes after it contribute to no aggregate.
TerminatedRecordsOnly ==
    /\ \A t \in 1..Len(tasks) :
            /\ TotalCount(tasks[t].cities) <= Separators(Scanned(tasks[t]))
            /\ tasks[t].state = "sent"
                    => tasks[t].cities = TallyAll(Terminated(tasks[t].data))
    /\ \A i \in 1..Len(channel) : TotalCount(channel[i]) <= Separators(file)
    /\ TotalCount(all_cities) <= Separators(file)

\* Main has received the map of a chunk that ends in a record without its
\* newline after two folded records: the map counts two and lacks the key of
\* the unterminated record.
TerminatedRecordsOnlyWitness ==
    /\ count_tasks_completed = 1
    /\ tasks[1].state = "sent"
    /\ SubSeqFrom(tasks[1].data, Len(Terminated(tasks[1].data)) + 1) = <<98, 59, 51>>
    /\ Separators(tasks[1].data) = 2
    /\ TotalCount(all_cities) = 2
    /\ <<98>> \notin DOMAIN all_cities

====
